---- MODULE Spec2Model ----
(***************************************************************************)
(* The commit pipeline buffer manager (StateManager) of                    *)
(* consensus/src/experimental/buffer_manager.rs as a state machine.        *)
(* One action per arm of the select! in StateManager::start; each action   *)
(* runs the handler together with its post-actions.                        *)
(***************************************************************************)
EXTENDS Integers, Sequences, FiniteSets, TLC

\* ---------------------------------------------------------------- bounds
MaxOrdered == 3      \* ordered-blocks events delivered in a run
MaxSync == 2         \* sync requests delivered in a run
MaxBroadcasts == 2   \* the timer stops ticking once this many votes were broadcast

\* ------------------------------------------------------------- constants
BUFFER_MANAGER_RETRY_INTERVAL == 1000

None == 0           \* Link<T> = Option<..>: the absent link

Validators == 1..4  \* {A, B, C, D}, equal voting power
Quorum == 3
LocalAuthor == 1
Peers == Validators \ {LocalAuthor}

VoteKinds == {"ok", "mismatch", "badsig"}

\* the batches consensus sends: B1 holds one block, B2 two; ids are distinct
Batches == 1..2
BlocksOf(b) == IF b % 2 = 0 THEN <<2 * b - 1, 2 * b>> ELSE <<2 * b>>
Last(seq) == seq[Len(seq)]
BatchIds == {Last(BlocksOf(b)) : b \in Batches}
NoSuchId == 2 * Cardinality(Batches) + 1   \* a block id that no batch carries

Min(S) == CHOOSE x \in S : \A y \in S : x <= y

VARIABLES
    buffer,          \* List<BufferItem>, head first
    execution_root,  \* Link: node of the first unprocessed Ordered item, or None
    signing_root,    \* Link: node of the first unprocessed Executed item, or None
    end_epoch,       \* bool
    status,          \* "running" | "panic" | "hang"
    fault,           \* which panic / divergence ended the task
    execq,           \* execution requests in flight (execution_phase_tx)
    signq,           \* signing requests in flight (signing_phase_tx)
    persisted,       \* persisting requests sent (persisting_phase_tx)
    broadcasts,      \* commit votes broadcast (commit_msg_tx)
    acks,            \* sync acknowledgements sent
    received,        \* batches read from block_rx, in order
    popLog,          \* for each persisting request, the states of the items popped for it
    nsync            \* sync requests read from sync_rx

vars == <<buffer, execution_root, signing_root, end_epoch, status, fault, execq,
          signq, persisted, broadcasts, acks, received, popLog, nsync>>

\* the dispatcher state as one record, so that handlers compose
Cur == [buffer |-> buffer, execution_root |-> execution_root,
        signing_root |-> signing_root, end_epoch |-> end_epoch,
        status |-> status, fault |-> fault, execq |-> execq, signq |-> signq,
        persisted |-> persisted, broadcasts |-> broadcasts, acks |-> acks,
        received |-> received, popLog |-> popLog]

Install(x) ==
    \E t \in {x} :
    /\ buffer' = t.buffer
    /\ execution_root' = t.execution_root
    /\ signing_root' = t.signing_root
    /\ end_epoch' = t.end_epoch
    /\ status' = t.status
    /\ fault' = t.fault
    /\ execq' = t.execq
    /\ signq' = t.signq
    /\ persisted' = t.persisted
    /\ broadcasts' = t.broadcasts
    /\ acks' = t.acks
    /\ received' = t.received
    /\ popLog' = t.popLog

\* sequencing: F applied to the value of x
Pipe(x, F(_)) == CHOOSE y \in {F(v) : v \in {x}} : TRUE

Panic(s, why) == IF s.status = "running"
                 THEN [s EXCEPT !.status = "panic", !.fault = why]
                 ELSE s

\* ------------------------------------------------------------ BufferItem
NoProof == [id |-> 0, signers |-> {}, external |-> FALSE]

new_ordered(node, ordered_blocks, ordered_proof, callback) ==
    [node |-> node, id |-> Last(ordered_blocks), blocks |-> ordered_blocks,
     st |-> "Ordered", sigs |-> {}, proof |-> NoProof,
     ordered_proof |-> ordered_proof, callback |-> callback]

is_ordered(item) == item.st = "Ordered"
is_executed(item) == item.st = "Executed"
is_signed(item) == item.st = "Signed"
is_aggregated(item) == item.st = "Aggregated"

advance_to_executed(item, executed_blocks) ==
    [item EXCEPT !.st = "Executed", !.blocks = executed_blocks]

advance_to_signed(item, author) ==
    [item EXCEPT !.st = "Signed", !.sigs = {author}]

commit_vote_of(item, author) == [author |-> author, id |-> item.id]

\* Ok (TRUE) only on a Signed item, with the same block_info and a valid signature
add_signature_ok(item, vote) ==
    /\ item.st = "Signed"
    /\ vote.kind = "ok"

add_signature_if_matched(item, vote) ==
    IF add_signature_ok(item, vote)
    THEN [item EXCEPT !.sigs = @ \cup {vote.author}]
    ELSE item

check_voting_power(authors) == Cardinality(authors) >= Quorum

try_advance_to_aggregated(item) ==
    IF item.st = "Signed" /\ check_voting_power(item.sigs)
    THEN [item EXCEPT !.st = "Aggregated",
                      !.proof = [id |-> item.id, signers |-> item.sigs,
                                 external |-> FALSE]]
    ELSE item

try_advance_to_aggregated_with_ledger_info(item, ledger_info) ==
    IF item.st # "Aggregated" /\ ledger_info.verifies /\ ledger_info.id = item.id
    THEN [item EXCEPT !.st = "Aggregated",
                      !.proof = [id |-> ledger_info.id, signers |-> {},
                                 external |-> TRUE]]
    ELSE item

\* ------------------------------------------------------------ linkedlist
EmptySlot(node) ==
    [node |-> node, id |-> 0, blocks |-> <<>>, st |-> "Empty", sigs |-> {},
     proof |-> NoProof, ordered_proof |-> 0, callback |-> 0]

HeadLink(buf) == IF Len(buf) = 0 THEN None ELSE buf[1].node

\* position of the node a link references; 0 when it is not in the list (popped)
Pos(buf, link) ==
    IF \E i \in 1..Len(buf) : buf[i].node = link
    THEN CHOOSE i \in 1..Len(buf) : buf[i].node = link
    ELSE 0

link_eq(a, b) == a # None /\ b # None /\ a = b

get_next(buf, link) ==
    LET p == Pos(buf, link)
    IN IF p = 0 \/ p = Len(buf) THEN None ELSE buf[p + 1].node

\* get_elem / take_elem are defined on a link whose slot is in the list and filled
elem_ok(buf, link) ==
    /\ link # None
    /\ Pos(buf, link) # 0
    /\ buf[Pos(buf, link)].st # "Empty"

get_elem(buf, link) == buf[Pos(buf, link)]

take_elem(buf, link) == [buf EXCEPT ![Pos(buf, link)] = EmptySlot(link)]

set_elem(buf, link, item) == [buf EXCEPT ![Pos(buf, link)] = item]

push_back(buf, item) == Append(buf, item)

\* the slots whose item satisfies the closure handed to find_elem
InState(buf, st) == {i \in 1..Len(buf) : buf[i].st = st}
WithBlockId(buf, id) == {i \in 1..Len(buf) : buf[i].st # "Empty" /\ buf[i].id = id}

\* find_elem(link, compare): linear scan from link to the first slot in
\* `matching`; it has no access to the list, so an absent link finds nothing.
\* ok = FALSE: the scan touched a popped node or an empty slot.
find_elem(buf, link, matching) ==
    IF link = None THEN [ok |-> TRUE, link |-> None]
    ELSE LET p == Pos(buf, link)
         IN IF p = 0 THEN [ok |-> FALSE, link |-> None]
            ELSE LET hits == {i \in matching : i >= p}
                     stop == IF hits = {} THEN Len(buf) ELSE Min(hits)
                 IN IF \E i \in p..stop : buf[i].st = "Empty"
                    THEN [ok |-> FALSE, link |-> None]
                    ELSE IF hits = {} THEN [ok |-> TRUE, link |-> None]
                    ELSE [ok |-> TRUE, link |-> buf[stop].node]

\* ---------------------------------------------------------- StateManager
\* process_ordered_blocks: push a new Ordered item to the tail, unconditionally
process_ordered_blocks(s, node, ordered_blocks, ordered_proof, callback) ==
    [s EXCEPT !.buffer = push_back(@, new_ordered(node, ordered_blocks,
                                                   ordered_proof, callback))]

advance_execution_root(s) ==
    IF s.status # "running" THEN s
    ELSE LET cursor == IF s.execution_root # None THEN s.execution_root
                       ELSE HeadLink(s.buffer)
             r == find_elem(s.buffer, cursor, InState(s.buffer, "Ordered"))
         IN IF ~r.ok THEN Panic(s, "find_elem")
            ELSE IF r.link = None THEN [s EXCEPT !.execution_root = None]
            ELSE [s EXCEPT !.execution_root = r.link,
                           !.execq = Append(@, [ordered_blocks |->
                                                get_elem(s.buffer, r.link).blocks])]

advance_signing_root(s) ==
    IF s.status # "running" THEN s
    ELSE LET cursor == IF s.signing_root # None THEN s.signing_root
                       ELSE HeadLink(s.buffer)
             r == find_elem(s.buffer, cursor, InState(s.buffer, "Executed"))
         IN IF ~r.ok THEN Panic(s, "find_elem")
            ELSE IF r.link = None THEN [s EXCEPT !.signing_root = None]
            ELSE LET item == get_elem(s.buffer, r.link)
                 IN [s EXCEPT !.signing_root = r.link,
                              !.signq = Append(@, [ordered_ledger_info |-> item.ordered_proof,
                                                   commit_ledger_info |-> Last(item.blocks)])]

ConcatBlocks(buf, k) ==
    LET F[i \in 0..k] == IF i = 0 THEN <<>> ELSE F[i - 1] \o buf[i].blocks
    IN F[k]

StatesOf(buf, k) == [i \in 1..k |-> buf[i].st]

\* mutant: the request carries the callback of the first popped item
PersistingRequest_FirstCallback(buf, k) ==
    [blocks |-> ConcatBlocks(buf, k),
     commit_ledger_info |-> buf[k].proof,
     callback |-> buf[1].callback]

\* the PersistingRequest built when the k-th popped item is the target
PersistingRequest(buf, k) ==
    [blocks |-> ConcatBlocks(buf, k),
     commit_ledger_info |-> buf[k].proof,
     callback |-> buf[k].callback]

\* advance_head: pop from the head up to and including the first item whose
\* block_id is the target's, and send one persisting request
advance_head(s, aggregated_cursor) ==
    IF s.status # "running" THEN s
    ELSE IF ~elem_ok(s.buffer, aggregated_cursor) THEN Panic(s, "get_elem")
    ELSE IF ~is_aggregated(get_elem(s.buffer, aggregated_cursor))
         THEN Panic(s, "advance_head assert")
    ELSE LET buf == s.buffer
             target_block_id == get_elem(buf, aggregated_cursor).id
             hits == {i \in 1..Len(buf) : buf[i].st = "Empty" \/ buf[i].id = target_block_id}
             k == Min(hits)
             rest == SubSeq(buf, k + 1, Len(buf))
         IN IF buf[k].st = "Empty"
            THEN Panic([s EXCEPT !.buffer = rest], "pop_front empty slot")
            ELSE IF ~is_aggregated(buf[k])
            THEN Panic([s EXCEPT !.buffer = rest], "Expect aggregated item")
            ELSE [s EXCEPT !.buffer = rest,
                           !.persisted = Append(@, PersistingRequest(buf, k)),
                           !.popLog = Append(@, StatesOf(buf, k))]

reset_all_roots(s) == [s EXCEPT !.signing_root = None, !.execution_root = None]

\* `aggregated`: whether process_sync_request goes on to advance_head
SyncAggregated(attempted_item) == is_aggregated(attempted_item)

\* tx_open: whether the requester still holds the receiver of the ack channel
process_sync_request(s, ledger_info, reconfig, tx_open) ==
    LET r == find_elem(s.buffer, HeadLink(s.buffer), WithBlockId(s.buffer, ledger_info.id))
        attempted_item == try_advance_to_aggregated_with_ledger_info(
                              get_elem(s.buffer, r.link), ledger_info)
        s1 == [s EXCEPT !.buffer = set_elem(take_elem(@, r.link), r.link, attempted_item)]
        s2 == IF SyncAggregated(attempted_item) THEN advance_head(s1, r.link) ELSE s1
        s3 == IF reconfig THEN [s EXCEPT !.end_epoch = TRUE]
              ELSE IF ~r.ok THEN Panic(s, "find_elem")
              ELSE IF r.link = None THEN reset_all_roots(s)
              ELSE IF s2.status # "running" THEN s2
              ELSE reset_all_roots(s2)
    IN IF s3.status # "running" THEN s3
       ELSE IF tx_open THEN [s3 EXCEPT !.acks = @ + 1]
       ELSE Panic(s3, "ack unwrap")

\* the link process_execution_response starts its search at
ExecSearchFrom(s) == s.execution_root

\* mutant: the handler logs a failed response and drops it
process_execution_response_DropsFailure(s, response) ==
    IF ~response.ok \/ ExecSearchFrom(s) = None THEN s
    ELSE [s EXCEPT !.buffer = set_elem(@, ExecSearchFrom(s),
                        advance_to_executed(get_elem(@, ExecSearchFrom(s)),
                                            response.executed_blocks))]

process_execution_response(s, response) ==
    IF s.status # "running" THEN s
    ELSE IF ~response.ok THEN Panic(s, "Execution failure")
    ELSE LET r == find_elem(s.buffer, ExecSearchFrom(s),
                            WithBlockId(s.buffer, Last(response.executed_blocks)))
         IN IF ~r.ok THEN Panic(s, "find_elem")
            ELSE IF r.link = None THEN s
            ELSE LET buffer_item == get_elem(s.buffer, r.link)
                 IN IF ~is_ordered(buffer_item)
                    THEN Panic([s EXCEPT !.buffer = take_elem(@, r.link)],
                               "process_execution_response assert")
                    ELSE [s EXCEPT !.buffer = set_elem(take_elem(@, r.link), r.link,
                                       advance_to_executed(buffer_item,
                                                           response.executed_blocks))]

\* the link process_signing_response starts its search at
SignSearchFrom(s) == s.signing_root

process_signing_response(s, response) ==
    IF s.status # "running" THEN s
    ELSE IF ~response.ok THEN s
    ELSE LET r == find_elem(s.buffer, SignSearchFrom(s),
                            WithBlockId(s.buffer, response.commit_ledger_info))
         IN IF ~r.ok THEN Panic(s, "find_elem")
            ELSE IF r.link = None THEN s
            ELSE LET buffer_item == get_elem(s.buffer, r.link)
                 IN IF is_executed(buffer_item)
                    THEN [s EXCEPT !.buffer = set_elem(take_elem(@, r.link), r.link,
                                       advance_to_signed(buffer_item, LocalAuthor)),
                                   !.broadcasts = Append(@, commit_vote_of(buffer_item,
                                                                             LocalAuthor))]
                    ELSE [s EXCEPT !.buffer = take_elem(@, r.link)]

\* the Option<cursor> process_commit_message returns for the item it has set
CommitResult(new_item, current_cursor) ==
    IF is_aggregated(new_item) THEN current_cursor ELSE None

\* mutant: a vote that add_signature_if_matched rejects is counted all the same
NewItemOnVote_CountsRejected(buffer_item, vote) ==
    try_advance_to_aggregated([buffer_item EXCEPT !.sigs = @ \cup {vote.author}])

\* new_item: Ok(()) => try_advance_to_aggregated, Err(e) => the item as it was
NewItemOnVote(buffer_item, vote) ==
    IF add_signature_ok(buffer_item, vote)
    THEN try_advance_to_aggregated(add_signature_if_matched(buffer_item, vote))
    ELSE buffer_item

\* process_commit_message returns the state and the Option<cursor> of a newly
\* aggregated item
process_commit_message(s, vote) ==
    LET r == find_elem(s.buffer, HeadLink(s.buffer), WithBlockId(s.buffer, vote.id))
    IN IF s.status # "running" THEN [s |-> s, aggregated |-> None]
       ELSE IF ~r.ok THEN [s |-> Panic(s, "find_elem"), aggregated |-> None]
       ELSE IF r.link = None THEN [s |-> s, aggregated |-> None]
       ELSE LET buffer_item == get_elem(s.buffer, r.link)
                new_item == NewItemOnVote(buffer_item, vote)
            IN [s |-> [s EXCEPT !.buffer = set_elem(take_elem(@, r.link), r.link, new_item)],
                aggregated |-> CommitResult(new_item, r.link)]

\* retry_broadcasting_commit_votes: the while loop, entered with `cursor`
RECURSIVE RetryFrom(_, _)
RetryFrom(s, cursor) ==
    IF cursor = None \/ link_eq(cursor, s.signing_root) THEN s
    ELSE LET next_cursor == get_next(s.buffer, cursor)
         IN IF ~elem_ok(s.buffer, cursor) THEN Panic(s, "get_elem")
            ELSE IF is_aggregated(get_elem(s.buffer, cursor))
                 THEN [s EXCEPT !.status = "hang", !.fault = "retry continue"]
            ELSE IF is_signed(get_elem(s.buffer, cursor))
                 THEN RetryFrom([s EXCEPT !.broadcasts =
                                    Append(@, commit_vote_of(get_elem(s.buffer, cursor),
                                                             LocalAuthor))],
                                next_cursor)
            ELSE Panic(s, "retry unreachable")

retry_broadcasting_commit_votes(s) ==
    IF s.status # "running" THEN s
    ELSE RetryFrom(s, HeadLink(s.buffer))

\* ------------------------------------------------- StateManager::start arms
\* the post-actions of the arms: advance a root only when it is None
execution_root_if_none(s) ==
    IF s.execution_root = None THEN advance_execution_root(s) ELSE s

signing_root_if_none(s) ==
    IF s.signing_root = None THEN advance_signing_root(s) ELSE s

start_blocks(s, node, b) ==
    Pipe(process_ordered_blocks(s, node, BlocksOf(b), b, node), execution_root_if_none)

start_sync(s, ledger_info, reconfig, tx_open) ==
    Pipe(Pipe(process_sync_request(s, ledger_info, reconfig, tx_open),
              execution_root_if_none),
         signing_root_if_none)

start_execution_response(s, response) ==
    Pipe(Pipe(process_execution_response(s, response), advance_execution_root),
         signing_root_if_none)

start_signing_response(s, response) ==
    Pipe(process_signing_response(s, response), advance_signing_root)

start_commit_msg(s, vote) ==
    LET some(r) == IF r.aggregated # None THEN advance_head(r.s, r.aggregated) ELSE r.s
    IN Pipe(process_commit_message(s, vote), some)

start_tick(s) == retry_broadcasting_commit_votes(s)

\* ------------------------------------------------------------------ actions
\* while !self.end_epoch, and the task has not panicked
Running == status = "running" /\ ~end_epoch

Init ==
    /\ buffer = <<>>
    /\ execution_root = None
    /\ signing_root = None
    /\ end_epoch = FALSE
    /\ status = "running"
    /\ fault = "none"
    /\ execq = <<>>
    /\ signq = <<>>
    /\ persisted = <<>>
    /\ broadcasts = <<>>
    /\ acks = 0
    /\ received = <<>>
    /\ popLog = <<>>
    /\ nsync = 0

\* block_rx hands over whatever consensus sends, in any order: a batch it
\* has not sent before or one it has
OrderedBlocksArrive(b) ==
    /\ Running
    /\ b \in Batches
    /\ Len(received) < MaxOrdered
    /\ Install(start_blocks([Cur EXCEPT !.received = Append(@, b)],
                            Len(received) + 1, b))
    /\ UNCHANGED nsync

SyncArrive(id, verifies, reconfig, tx_open) ==
    /\ Running
    /\ nsync < MaxSync
    /\ nsync' = nsync + 1
    /\ Install(start_sync(Cur, [id |-> id, verifies |-> verifies], reconfig, tx_open))

ExecutionResponse(ok) ==
    /\ Running
    /\ execq # <<>>
    /\ Install(start_execution_response(
                   [Cur EXCEPT !.execq = Tail(@)],
                   [ok |-> ok, executed_blocks |-> Head(execq).ordered_blocks]))
    /\ UNCHANGED nsync

SigningResponse(ok) ==
    /\ Running
    /\ signq # <<>>
    /\ Install(start_signing_response(
                   [Cur EXCEPT !.signq = Tail(@)],
                   [ok |-> ok, commit_ledger_info |-> Head(signq).commit_ledger_info]))
    /\ UNCHANGED nsync

CommitVoteArrive(author, id, kind) ==
    /\ Running
    /\ Install(start_commit_msg(Cur, [author |-> author, id |-> id, kind |-> kind]))
    /\ UNCHANGED nsync

TimerTick ==
    /\ Running
    /\ Len(broadcasts) < MaxBroadcasts
    /\ Install(start_tick(Cur))
    /\ UNCHANGED nsync

Next ==
    \/ \E b \in Batches : OrderedBlocksArrive(b)
    \/ \E id \in BatchIds \cup {NoSuchId}, verifies \in BOOLEAN, reconfig \in BOOLEAN,
          tx_open \in BOOLEAN :
         SyncArrive(id, verifies, reconfig, tx_open)
    \/ \E ok \in BOOLEAN : ExecutionResponse(ok)
    \/ \E ok \in BOOLEAN : SigningResponse(ok)
    \/ \E author \in Peers, id \in BatchIds \cup {NoSuchId}, kind \in VoteKinds :
         CommitVoteArrive(author, id, kind)
    \/ TimerTick

Spec == Init /\ [][Next]_vars

\* The run of the forward-progress claim: every request is answered
\* successfully, peers' votes match and verify, no reconfig sync arrives.
LiveNext ==
    \/ \E b \in Batches : OrderedBlocksArrive(b)
    \/ \E id \in BatchIds \cup {NoSuchId}, verifies \in BOOLEAN, tx_open \in BOOLEAN :
         SyncArrive(id, verifies, FALSE, tx_open)
    \/ ExecutionResponse(TRUE)
    \/ SigningResponse(TRUE)
    \/ \E author \in Peers, id \in BatchIds : CommitVoteArrive(author, id, "ok")
    \/ TimerTick

\* the dispatcher is scheduled whenever a response or a vote is ready for it
Fairness ==
    /\ WF_vars(ExecutionResponse(TRUE))
    /\ WF_vars(SigningResponse(TRUE))
    /\ \A author \in Peers, id \in BatchIds :
         WF_vars(CommitVoteArrive(author, id, "ok"))

LiveSpec == Init /\ [][LiveNext]_vars /\ Fairness

\* ================================================================= claims
\* helpers of the claims, independent of the operators of the model
IsPrefix(a, b) == Len(a) <= Len(b) /\ SubSeq(b, 1, Len(a)) = a

RECURSIVE FlatBlocks(_, _)
FlatBlocks(items, k) ==
    IF k = 0 THEN <<>> ELSE FlatBlocks(items, k - 1) \o items[k].blocks

RECURSIVE ReceivedBlocks(_)
ReceivedBlocks(n) ==
    IF n = 0 THEN <<>>
    ELSE ReceivedBlocks(n - 1)
         \o (IF received[n] % 2 = 0 THEN <<2 * received[n] - 1, 2 * received[n]>>
             ELSE <<2 * received[n]>>)

AtBoundary == status = "running"

\* C1: the concatenation of the block lists of all persisting requests sent so
\* far is a prefix of the sequence of ordered blocks received, and no block
\* occurs in it twice.
C1_PersistInHeadOrder ==
    LET sent == FlatBlocks(persisted, Len(persisted))
    IN /\ IsPrefix(sent, ReceivedBlocks(Len(received)))
       /\ \A i, j \in 1..Len(sent) : i # j => sent[i] # sent[j]

\* C2: every item popped by advance_head, the intermediate ones
\* included, is Aggregated when it is popped.
C2_AllPoppedAggregated ==
    \A r \in 1..Len(popLog) : \A i \in 1..Len(popLog[r]) : popLog[r][i] = "Aggregated"

\* C4 (as stated): every ordered block the dispatcher has received is
\* eventually contained in a persisting request.
C4_ForwardProgress ==
    \A n \in 1..MaxOrdered :
        (Len(received) >= n)
            ~> (/\ Len(received) >= n
                /\ Len(FlatBlocks(persisted, Len(persisted))) >= Len(ReceivedBlocks(n)))

\* C5: a step that calls advance_head sends exactly one persisting request; its
\* blocks are those of the items from the old head up to the target, in
\* order, its proof and callback are the target's, and the buffer afterwards
\* is what followed the target. No other step removes an item.
C5_Step ==
    LET n == Len(persisted)
        k == Len(buffer) - Len(buffer')
    IN /\ IsPrefix(persisted, persisted')
       /\ Len(persisted') <= n + 1
       /\ (status' = "running" /\ Len(persisted') = n) =>
            /\ Len(buffer') >= Len(buffer)
            /\ \A i \in 1..Len(buffer) : buffer'[i].node = buffer[i].node
       /\ Len(persisted') = n + 1 =>
            /\ k >= 1
            /\ persisted'[n + 1].blocks = FlatBlocks(buffer, k)
            /\ persisted'[n + 1].callback = buffer[k].callback
            /\ persisted'[n + 1].commit_ledger_info.id = buffer[k].id
            /\ buffer[k].sigs \subseteq persisted'[n + 1].commit_ledger_info.signers
                 \/ persisted'[n + 1].commit_ledger_info.external
            /\ buffer' = SubSeq(buffer, k + 1, Len(buffer))

C5_AdvanceHeadRequest == [][C5_Step]_vars

\* C5 witness: one request carries the blocks of two items, the buffer is empty
C5_Witness ==
    /\ Len(persisted) = 1
    /\ Len(popLog[1]) = 2
    /\ buffer = <<>>
    /\ received = <<1, 2>>

\* C3: a commit vote leads to a persisting request only when the
\* item it aggregates is the head of the buffer (advance_head is invoked only
\* with a cursor that references the head).
C3_OnlyHeadAggregates ==
    [][(/\ Len(persisted') = Len(persisted) + 1
        /\ ~persisted'[Len(persisted')].commit_ledger_info.external)
       => buffer[1].id = persisted'[Len(persisted')].commit_ledger_info.id]_vars

\* the first position of block id `id` in the buffer, 0 when there is none
FirstWithId(id) ==
    IF \E i \in 1..Len(buffer) : buffer[i].id = id
    THEN CHOOSE i \in 1..Len(buffer) :
             buffer[i].id = id /\ \A j \in 1..(i - 1) : buffer[j].id # id
    ELSE 0

FirstInState(st) ==
    IF \E i \in 1..Len(buffer) : buffer[i].st = st
    THEN CHOOSE i \in 1..Len(buffer) :
             buffer[i].st = st /\ \A j \in 1..(i - 1) : buffer[j].st # st
    ELSE 0

\* C6: at every handler boundary execution_root is absent or references the
\* first Ordered item of the buffer, and signing_root is absent or references
\* the first Executed item.
C6_RootsAtFirstUnprocessed ==
    AtBoundary =>
        /\ execution_root # None =>
             /\ FirstInState("Ordered") # 0
             /\ buffer[FirstInState("Ordered")].node = execution_root
        /\ signing_root # None =>
             /\ FirstInState("Executed") # 0
             /\ buffer[FirstInState("Executed")].node = signing_root

Rank(st) ==
    CASE st = "Ordered" -> 1
      [] st = "Executed" -> 2
      [] st = "Signed" -> 3
      [] st = "Aggregated" -> 4
      [] OTHER -> 0

C7_Step ==
    /\ \A i \in 1..Len(buffer), j \in 1..Len(buffer') :
         (buffer[i].node = buffer'[j].node /\ buffer[i].st # buffer'[j].st) =>
            /\ Rank(buffer'[j].st) = Rank(buffer[i].st) + 1
            /\ buffer[i].st = "Ordered" => ExecutionResponse(TRUE)
            /\ buffer[i].st = "Executed" => SigningResponse(TRUE)
            /\ buffer[i].st # "Signed"
    /\ Len(persisted') = Len(persisted) + 1 =>
         LET p == persisted'[Len(persisted')].commit_ledger_info
             k == Len(buffer) - Len(buffer')
         IN IF p.external
            THEN /\ buffer[k].st \in {"Ordered", "Executed", "Signed"}
                 /\ \E verifies, tx_open \in BOOLEAN :
                        SyncArrive(p.id, verifies, FALSE, tx_open)
            ELSE /\ buffer[k].st = "Signed"
                 /\ Cardinality(p.signers) >= Quorum
                 /\ \E author \in Peers : CommitVoteArrive(author, p.id, "ok")

C8_DistinctBlockIds ==
    \A i, j \in 1..Len(buffer) : i # j => buffer[i].id # buffer[j].id

\* the commit votes a tick is to broadcast: one per Signed item before signing_root
RECURSIVE SignedVotesBefore(_, _)
SignedVotesBefore(items, root) ==
    IF items = <<>> \/ items[1].node = root THEN <<>>
    ELSE (IF items[1].st = "Signed"
          THEN <<[author |-> LocalAuthor, id |-> items[1].id]>> ELSE <<>>)
         \o SignedVotesBefore(Tail(items), root)

\* C9 (as stated): every timer tick broadcasts exactly one commit vote for each
\* Signed item before signing_root, in buffer order, nothing else, and leaves
\* the buffer and both cursors unchanged.
C9_TickRebroadcasts ==
    [][TimerTick =>
         /\ status' = "running"
         /\ broadcasts' = broadcasts \o SignedVotesBefore(buffer, signing_root)
         /\ UNCHANGED <<buffer, execution_root, signing_root>>]_vars

\* C10 (as stated): the retry handler terminates on every timer tick and
\* returns control to the event loop.
C10_TickReturns ==
    [][(/\ Running
        /\ status' # "running")
       => ~TimerTick]_vars

\* C11: the step that handles a sync request with reconfig set sets end_epoch
\* and sends the acknowledgement without emitting an execution, signing or
\* persisting request or a broadcast and without touching the buffer; once
\* end_epoch is set the loop handles no further event: nothing changes any more.
C11_ReconfigStops ==
    /\ [][\A id \in BatchIds \cup {NoSuchId}, verifies \in BOOLEAN, tx_open \in BOOLEAN :
            SyncArrive(id, verifies, TRUE, tx_open) =>
                /\ end_epoch'
                /\ status' = "running"
                /\ acks' = acks + 1
                /\ UNCHANGED <<buffer, execq, signq, persisted, broadcasts>>]_vars
    /\ [][end_epoch => UNCHANGED vars]_vars

\* C12: a non-reconfig sync whose ledger info verifies and whose id is the
\* block_id of item k of the buffer (Ordered, Executed or Signed) sends one
\* persisting request with the blocks of items 1..k, in order, under the
\* sync's ledger info and item k's callback, and removes these items. If the
\* ledger info does not verify the buffer is unchanged and nothing is
\* persisted. Both hold for every item k that carries the id, whether or not
\* the requester still waits for the acknowledgement; the dispatcher keeps
\* running exactly when it does.
C12_Step ==
    \A id \in BatchIds, tx_open \in BOOLEAN, k \in 1..Len(buffer) :
        buffer[k].id = id =>
            /\ SyncArrive(id, TRUE, FALSE, tx_open) =>
                 /\ status' = IF tx_open THEN "running" ELSE "panic"
                 /\ buffer[k].st \in {"Ordered", "Executed", "Signed"}
                 /\ persisted' = Append(persisted,
                        [blocks |-> FlatBlocks(buffer, k),
                         commit_ledger_info |->
                             [id |-> id, signers |-> {}, external |-> TRUE],
                         callback |-> buffer[k].callback])
                 /\ buffer' = SubSeq(buffer, k + 1, Len(buffer))
            /\ SyncArrive(id, FALSE, FALSE, tx_open) =>
                 /\ status' = IF tx_open THEN "running" ELSE "panic"
                 /\ buffer' = buffer
                 /\ persisted' = persisted

C12_SyncPersistsPrefix == [][C12_Step]_vars

\* the sync requests the model delivers
SyncLedgerInfos == [id : BatchIds \cup {NoSuchId}, verifies : BOOLEAN]

\* C13: process_sync_request leaves both cursors absent and sends one
\* acknowledgement for every sync request, with reconfig set or not, matching
\* an item or not, whatever became of the receiver of the reply channel.
C13_AlwaysResets ==
    (Running /\ nsync < MaxSync) =>
        \A ledger_info \in SyncLedgerInfos, reconfig \in BOOLEAN, tx_open \in BOOLEAN :
            LET r == process_sync_request(Cur, ledger_info, reconfig, tx_open)
            IN /\ r.execution_root = None
               /\ r.signing_root = None
               /\ r.acks = acks + 1

\* the link of the first item in state st, found by a scan from the head
FirstLinkInState(st) ==
    IF FirstInState(st) = 0 THEN None ELSE buffer[FirstInState(st)].node

\* C14: a non-reconfig sync whose id is the block_id of no item in the buffer
\* sends the acknowledgement, leaves the buffer unchanged, sends no persisting
\* request and no broadcast and does not end the epoch; afterwards
\* execution_root references the first Ordered item and signing_root the first
\* Executed item of the buffer (absent when there is none), as a scan from the
\* head finds them.
C14_Step ==
    \A id \in BatchIds \cup {NoSuchId}, verifies \in BOOLEAN, tx_open \in BOOLEAN :
        (FirstWithId(id) = 0 /\ SyncArrive(id, verifies, FALSE, tx_open)) =>
            /\ status' = "running"
            /\ acks' = acks + 1
            /\ UNCHANGED <<buffer, persisted, popLog, broadcasts, end_epoch, received>>
            /\ execution_root' = FirstLinkInState("Ordered")
            /\ signing_root' = FirstLinkInState("Executed")

C14_SyncNoMatch == [][C14_Step]_vars

\* the state a signing response for the oldest request in flight leads to
AfterSigningResponse(ok) ==
    start_signing_response([Cur EXCEPT !.signq = Tail(@)],
                           [ok |-> ok,
                            commit_ledger_info |-> Head(signq).commit_ledger_info])

\* C15: whenever a signing response with an error is handled, no commit vote
\* is broadcast, nothing is persisted, the buffer is unchanged (the item the
\* response refers to stays Executed), and when that item is in the buffer and
\* Executed, signing_root references it after the step.
C15_SigningErrorKeepsItem ==
    (Running /\ signq # <<>>) =>
        LET r == AfterSigningResponse(FALSE)
            k == FirstWithId(Head(signq).commit_ledger_info)
        IN /\ r.status = "running"
           /\ r.broadcasts = broadcasts
           /\ r.persisted = persisted
           /\ r.buffer = buffer
           /\ r.execution_root = execution_root
           /\ (k > 0 /\ buffer[k].st = "Executed") => r.signing_root = buffer[k].node

\* C16: a step persists under a proof aggregated from votes only when it
\* handles a matching, verified commit vote of a peer that is not yet in the
\* signature map of a Signed item holding one signature less than the quorum;
\* the proof carries exactly these signatures, the local author's among them.
\* At a handler boundary every Signed item holds the local author's signature
\* and fewer signatures than the quorum, and no item is Aggregated.
C16_Step ==
    (/\ Len(persisted') = Len(persisted) + 1
     /\ ~persisted'[Len(persisted')].commit_ledger_info.external) =>
        LET p == persisted'[Len(persisted')].commit_ledger_info
            k == FirstWithId(p.id)
        IN /\ k > 0
           /\ buffer[k].st = "Signed"
           /\ Cardinality(buffer[k].sigs) = Quorum - 1
           /\ \E author \in Peers \ buffer[k].sigs :
                /\ CommitVoteArrive(author, p.id, "ok")
                /\ p.signers = buffer[k].sigs \cup {author}

C16_AggregatedAtQuorum ==
    /\ [](AtBoundary =>
            \A i \in 1..Len(buffer) :
                /\ buffer[i].st # "Aggregated"
                /\ buffer[i].st = "Signed" =>
                     /\ LocalAuthor \in buffer[i].sigs
                     /\ buffer[i].sigs \subseteq Validators
                     /\ Cardinality(buffer[i].sigs) < Quorum
                /\ buffer[i].st \in {"Ordered", "Executed"} => buffer[i].sigs = {})
    /\ [](\A r \in 1..Len(persisted) :
            LET p == persisted[r].commit_ledger_info
            IN ~p.external =>
                 /\ LocalAuthor \in p.signers
                 /\ Cardinality(p.signers) = Quorum)
    /\ [][C16_Step]_vars

\* C16 witness: B2 holds the signatures of A and D and is still Signed in the
\* buffer, after B1 was aggregated by the votes of B and C and persisted
C16_Witness ==
    /\ Running
    /\ received = <<1, 2>>
    /\ Len(persisted) = 1
    /\ persisted[1].commit_ledger_info.signers = {1, 2, 3}
    /\ persisted[1].commit_ledger_info.id = 2
    /\ Len(buffer) = 1
    /\ buffer[1].st = "Signed"
    /\ buffer[1].sigs = {1, 4}

\* the commit votes that match and verify, the local author's own included
OkVotes == [author : Validators, id : BatchIds, kind : {"ok"}]

\* C17: for every commit vote that matches and verifies, handling it twice
\* leaves the dispatcher in the state that handling it once leaves it in; and
\* a vote whose author is already in the signature map of the Signed item it
\* names changes nothing at all: the signature set does not grow, the item is
\* not aggregated, nothing is persisted.
C17_DuplicateVoteIdempotent ==
    Running =>
        \A vote \in OkVotes :
            LET once == start_commit_msg(Cur, vote)
                k == FirstWithId(vote.id)
            IN /\ start_commit_msg(once, vote) = once
               /\ (k > 0 /\ buffer[k].st = "Signed" /\ vote.author \in buffer[k].sigs) =>
                    once = Cur

\* the commit votes the network can deliver
AllVotes == [author : Peers, id : BatchIds \cup {NoSuchId}, kind : VoteKinds]

\* C18: a commit vote is discarded when no buffer item has its id, when the
\* item with its id is not Signed, when its block_info does not match or when
\* its signature does not verify: handling it leaves the buffer (the item's
\* state and signature set), both cursors and every outbound channel as they
\* were.
C18_RejectedVoteDiscarded ==
    Running =>
        \A vote \in AllVotes :
            LET k == FirstWithId(vote.id)
            IN (k = 0 \/ buffer[k].st # "Signed" \/ vote.kind # "ok") =>
                   start_commit_msg(Cur, vote) = Cur

\* C19: the step that handles a failed execution response ends the dispatcher
\* with the panic "Execution failure"; it changes no buffer item and no cursor
\* and sends nothing. After a panic no event is handled any more.
C19_ExecutionFailureFatal ==
    /\ [][ExecutionResponse(FALSE) =>
            /\ status' = "panic"
            /\ fault' = "Execution failure"
            /\ execq' = Tail(execq)
            /\ UNCHANGED <<buffer, execution_root, signing_root, signq, persisted,
                           broadcasts, acks, end_epoch>>]_vars
    /\ [][status # "running" => UNCHANGED vars]_vars

\* C19 witness: the execution of B2 failed while B1 was Signed and waiting for
\* votes; the dispatcher has stopped with both items in the buffer
C19_Witness ==
    /\ status = "panic"
    /\ fault = "Execution failure"
    /\ Len(buffer) = 2
    /\ buffer[1].st = "Signed"
    /\ buffer[2].st = "Ordered"
    /\ execution_root = buffer[2].node
    /\ persisted = <<>>

\* the positions at or after signing_root whose item has block id `id`
AtOrAfterSigningRoot(id) ==
    {i \in 1..Len(buffer) :
        /\ buffer[i].id = id
        /\ \E j \in 1..i : buffer[j].node = signing_root}

\* C20: whenever a successful signing response is handled, if the first item
\* at or after signing_root with the response's id is Executed, exactly that
\* item becomes Signed, with the local author's signature, and its commit vote
\* is broadcast once; if no item at or after signing_root has that id, no item
\* changes and nothing is broadcast. In both cases nothing is persisted.
C20_SigningResponse ==
    (Running /\ signq # <<>>) =>
        LET r == AfterSigningResponse(TRUE)
            id == Head(signq).commit_ledger_info
            hits == AtOrAfterSigningRoot(id)
        IN IF hits = {}
           THEN /\ r.status = "running"
                /\ r.buffer = buffer
                /\ r.broadcasts = broadcasts
                /\ r.persisted = persisted
           ELSE buffer[Min(hits)].st = "Executed" =>
                /\ r.status = "running"
                /\ r.buffer = [buffer EXCEPT ![Min(hits)] =
                                  [@ EXCEPT !.st = "Signed", !.sigs = {LocalAuthor}]]
                /\ r.broadcasts = Append(broadcasts, [author |-> LocalAuthor, id |-> id])
                /\ r.persisted = persisted

\* C21 (as stated): no timer tick reaches the unreachable!() branch of
\* retry_broadcasting_commit_votes: the retry loop never visits an Ordered or
\* an Executed item.
C21_RetryNeverUnreachable == fault # "retry unreachable"

\* C22: at every handler boundary no item of the buffer is Aggregated and the
\* states along the buffer never go back: Signed items, then Executed items,
\* then Ordered items. The item a step executes is the first Ordered item of
\* the buffer and the item it signs is the first Executed item.
C22_Step ==
    \A i \in 1..Len(buffer), j \in 1..Len(buffer') :
        buffer[i].node = buffer'[j].node =>
            /\ (buffer[i].st = "Ordered" /\ buffer'[j].st = "Executed") =>
                   \A h \in 1..(i - 1) : buffer[h].st # "Ordered"
            /\ (buffer[i].st = "Executed" /\ buffer'[j].st = "Signed") =>
                   \A h \in 1..(i - 1) : buffer[h].st # "Executed"

C22_BufferShape ==
    /\ [](AtBoundary =>
            /\ \A i \in 1..Len(buffer) : buffer[i].st \in {"Signed", "Executed", "Ordered"}
            /\ \A i, j \in 1..Len(buffer) : i < j => Rank(buffer[i].st) >= Rank(buffer[j].st))
    /\ [][C22_Step]_vars

\* the positions at or after execution_root whose item has block id `id`
AtOrAfterExecutionRoot(id) ==
    {i \in 1..Len(buffer) :
        /\ buffer[i].id = id
        /\ \E j \in 1..i : buffer[j].node = execution_root}

\* the state a successful execution response for the oldest request in flight
\* leads to
AfterExecutionResponse ==
    start_execution_response([Cur EXCEPT !.execq = Tail(@)],
                             [ok |-> TRUE,
                              executed_blocks |-> Head(execq).ordered_blocks])

\* C23: the assertion of process_execution_response never fails: whenever the
\* response to an execution request in flight is handled, the search from
\* execution_root for the response's block id finds no item or an Ordered one,
\* and the dispatcher keeps running.
C23_ExecutionAssertHolds ==
    /\ fault # "process_execution_response assert"
    /\ (Running /\ execq # <<>>) =>
           LET hits == AtOrAfterExecutionRoot(Last(Head(execq).ordered_blocks))
           IN /\ hits # {} => buffer[Min(hits)].st = "Ordered"
              /\ AfterExecutionResponse.status = "running"

\* the links of the items in the buffer
Nodes(items) == {items[i].node : i \in 1..Len(items)}

\* C24: at every handler boundary each cursor is absent or references an item
\* that is in the buffer, and no handler ever follows a link to a popped
\* item. A step that persists on a commit vote leaves both cursors as they are
\* and pops none of the items they reference.
C24_Step ==
    (/\ Len(persisted') = Len(persisted) + 1
     /\ ~persisted'[Len(persisted')].commit_ledger_info.external) =>
        /\ UNCHANGED <<execution_root, signing_root>>
        /\ (Nodes(buffer) \ Nodes(buffer')) \cap {execution_root, signing_root} = {}
        /\ Nodes(buffer) \ Nodes(buffer') # {}

C24_CursorsInBuffer ==
    /\ [](/\ fault \notin {"find_elem", "get_elem"}
          /\ AtBoundary =>
               /\ execution_root \in Nodes(buffer) \cup {None}
               /\ signing_root \in Nodes(buffer) \cup {None})
    /\ [][C24_Step]_vars

\* C25: at every handler boundary the blocks of the persisting requests sent
\* so far, followed by the blocks of the items in the buffer from head to
\* tail, are the blocks of the batches received so far, in the order received.
C25_BlocksConserved ==
    AtBoundary =>
        FlatBlocks(persisted, Len(persisted)) \o FlatBlocks(buffer, Len(buffer))
            = ReceivedBlocks(Len(received))

\* C26 (as stated): at every handler boundary no slot of the buffer is empty:
\* every take_elem was followed by a set_elem on the same slot.
C26_NoEmptySlot ==
    AtBoundary => \A i \in 1..Len(buffer) : buffer[i].st # "Empty"

====
